---- MODULE Spec2Model ----
(***************************************************************************)
(* Camera and PointCloudRenderer of the point cloud viewer.                *)
(*                                                                         *)
(* Numbers.  Every float of the program is held as an integer count of    *)
(* hundredths (FP units): 10.0f is 1000, 0.1f is 10, 35.26f is 3526.  A    *)
(* product or quotient is rounded to the nearest hundredth, as the float  *)
(* unit rounds to the nearest representable value.  Inputs are finite     *)
(* numbers (no NaN, no infinity).                                          *)
(***************************************************************************)
EXTENDS Integers, Sequences, FiniteSets, TLC

VARIABLES
    camera,          \* PointCloudRenderer::camera (distance, yaw, pitch, target, fov)
    points,          \* PointCloudRenderer::points
    pointCount,      \* PointCloudRenderer::pointCount
    minX, maxX, minY, maxY, minZ, maxZ,   \* bounding box
    pointSize, colorMode, showGrid, gridSpacing, gridSize, showAxisLabels,
    gl,              \* state of the OpenGL context the renderer draws into
    frame,           \* primitives this operation emitted, in order (empty unless render)
    labels,          \* labels this operation added to the foreground draw list, in order
    main,            \* main() of the example: position in the loop and its local variables
    seen,            \* history: what the label stage and the render stage worked from,
                     \*          since the last operation that was not a draw stage
    pans,            \* history: number of pan calls so far
    sinceClear,      \* history: whether clearPointCloud ran after the last setPointCloud,
                     \*          and the bounds it started from
    last,            \* history: the operation that produced this state, with its arguments
    pre              \* history: the program state that operation started from

store    == <<points, pointCount, minX, maxX, minY, maxY, minZ, maxZ>>
settings == <<pointSize, colorMode, showGrid, gridSpacing, gridSize, showAxisLabels>>
vars     == <<camera, store, settings, gl, frame, labels, main, seen, pans, sinceClear,
             last, pre>>

-----------------------------------------------------------------------------
(* Fixed-point arithmetic *)

FP == 10 * 10

Abs(a) == IF a < 0 THEN -a ELSE a

\* a / b rounded to the nearest integer, halves away from zero (b > 0)
RoundDiv(a, b) ==
    LET q == Abs(a) \div b
        r == Abs(a) % b
        m == IF 2 * r >= b THEN q + 1 ELSE q
    IN  IF a < 0 THEN -m ELSE m

\* float product of two FP numbers
Mul(a, b) == RoundDiv(a * b, FP)

Min2(a, b) == IF b < a THEN b ELSE a
Max2(a, b) == IF a < b THEN b ELSE a

\* cos and sin of an angle given in FP degrees; the model keeps yaw on multiples of 45
\* and pitch on 0, 30, 35.26, 45, 60, 75, 89, -30 and -89
Cos(deg) ==
    LET a == (deg \div FP) % 360
    IN  CASE a = 0   -> 100
          [] a = 30  -> 87
          [] a = 35  -> 82
          [] a = 45  -> 71
          [] a = 60  -> 50
          [] a = 75  -> 26
          [] a = 89  -> 2
          [] a = 271 -> 2
          [] a = 90  -> 0
          [] a = 135 -> -71
          [] a = 180 -> -100
          [] a = 225 -> -71
          [] a = 270 -> 0
          [] a = 315 -> 71
          [] a = 330 -> 87

Sin(deg) ==
    LET a == (deg \div FP) % 360
    IN  CASE a = 0   -> 0
          [] a = 30  -> 50
          [] a = 35  -> 58
          [] a = 45  -> 71
          [] a = 60  -> 87
          [] a = 75  -> 97
          [] a = 89  -> 100
          [] a = 271 -> -100
          [] a = 90  -> 100
          [] a = 135 -> 71
          [] a = 180 -> 0
          [] a = 225 -> -71
          [] a = 270 -> -100
          [] a = 315 -> -71
          [] a = 330 -> -50

-----------------------------------------------------------------------------
(* Camera *)

\* reset that levels the camera instead of tilting it to 30 degrees
Camera_reset_level ==
    [distance |-> 1000, yaw |-> 4500, pitch |-> 0,
     targetX |-> 0, targetY |-> 0, targetZ |-> 0, fov |-> 4500]

Camera_reset ==
    [distance |-> 1000, yaw |-> 4500, pitch |-> 3000,
     targetX |-> 0, targetY |-> 0, targetZ |-> 0, fov |-> 4500]

\* orbit with the pitch clamp left out
Camera_orbit_noClamp(c, deltaYaw, deltaPitch) ==
    [c EXCEPT !.yaw = c.yaw + deltaYaw, !.pitch = c.pitch + deltaPitch]

\* orbit that wraps yaw into [0, 360)
Camera_orbit_wrapYaw(c, deltaYaw, deltaPitch) ==
    LET p1 == c.pitch + deltaPitch
        p2 == IF p1 > 8900 THEN 8900 ELSE p1
        p3 == IF p2 < -8900 THEN -8900 ELSE p2
    IN  [c EXCEPT !.yaw = (c.yaw + deltaYaw) % 36000, !.pitch = p3]

Camera_orbit(c, deltaYaw, deltaPitch) ==
    LET p1 == c.pitch + deltaPitch
        p2 == IF p1 > 8900 THEN 8900 ELSE p1
        p3 == IF p2 < -8900 THEN -8900 ELSE p2
    IN  [c EXCEPT !.yaw = c.yaw + deltaYaw, !.pitch = p3]

\* pan that moves the target sideways by the horizontal delta alone
Camera_pan_horizontalOnly(c, deltaX, deltaY) ==
    LET right_x == Cos(c.yaw)
        right_z == -Sin(c.yaw)
        up_y    == FP
        Scaled(x) == RoundDiv(x * c.distance, FP * 1000)
    IN  [c EXCEPT
           !.targetX = c.targetX + Scaled(Mul(right_x, deltaX)),
           !.targetY = c.targetY + Scaled(Mul(up_y, deltaY)),
           !.targetZ = c.targetZ + Scaled(Mul(right_z, deltaX))]

Camera_pan(c, deltaX, deltaY) ==
    LET right_x == Cos(c.yaw)
        right_z == -Sin(c.yaw)
        up_y    == FP
        \* x * scale, scale = distance * 0.001f
        Scaled(x) == RoundDiv(x * c.distance, FP * 1000)
    IN  [c EXCEPT
           !.targetX = c.targetX + Scaled(Mul(right_x, deltaX) - Mul(right_x, deltaY)),
           !.targetY = c.targetY + Scaled(Mul(up_y, deltaY)),
           !.targetZ = c.targetZ + Scaled(Mul(right_z, deltaX) - Mul(right_z, deltaY))]

\* zoom with the lower clamp left out
Camera_zoom_noFloor(c, delta) ==
    LET d1 == Mul(c.distance, FP - Mul(delta, 10))
    IN  [c EXCEPT !.distance = IF d1 > 100000 THEN 100000 ELSE d1]

Camera_zoom(c, delta) ==
    LET d1 == Mul(c.distance, FP - Mul(delta, 10))
        d2 == IF d1 < 10 THEN 10 ELSE d1
        d3 == IF d2 > 100000 THEN 100000 ELSE d2
    IN  [c EXCEPT !.distance = d3]

\* top view looking straight down at 90 degrees
Camera_setTopView_90(c) == [c EXCEPT !.yaw = 0, !.pitch = 9000]

Camera_setTopView(c)       == [c EXCEPT !.yaw = 0,    !.pitch = 8900]
Camera_setFrontView(c)     == [c EXCEPT !.yaw = 0,    !.pitch = 0]
Camera_setSideView(c)      == [c EXCEPT !.yaw = 9000, !.pitch = 0]
Camera_setIsometricView(c) == [c EXCEPT !.yaw = 4500, !.pitch = 3526]

-----------------------------------------------------------------------------
(* Point store *)

FLT_MAX == 2000000000

RECURSIVE FoldBounds(_, _, _)
\* the loop of calculateBounds over points[i..], b the bounds so far
FoldBounds(pts, i, b) ==
    IF i > Len(pts) THEN b
    ELSE LET p == pts[i]
         IN  FoldBounds(pts, i + 1,
                 [minX |-> Min2(b.minX, p.x), maxX |-> Max2(b.maxX, p.x),
                  minY |-> Min2(b.minY, p.y), maxY |-> Max2(b.maxY, p.y),
                  minZ |-> Min2(b.minZ, p.z), maxZ |-> Max2(b.maxZ, p.z)])

\* calculateBounds with the running bounds started at zero
calculateBounds_zeroInit(pts) ==
    FoldBounds(pts, 1, [minX |-> 0, maxX |-> 0, minY |-> 0, maxY |-> 0, minZ |-> 0, maxZ |-> 0])

calculateBounds(pts) ==
    IF pts = <<>>
    THEN [minX |-> 0, maxX |-> 0, minY |-> 0, maxY |-> 0, minZ |-> 0, maxZ |-> 0]
    ELSE FoldBounds(pts, 1,
             [minX |-> FLT_MAX, maxX |-> -FLT_MAX, minY |-> FLT_MAX,
              maxY |-> -FLT_MAX, minZ |-> FLT_MAX, maxZ |-> -FLT_MAX])

\* auto-centre that recentres but keeps the old distance
AutoCenter_keepDistance(c, b) ==
    [c EXCEPT !.targetX = Mul(b.minX + b.maxX, 50),
              !.targetY = Mul(b.minY + b.maxY, 50),
              !.targetZ = Mul(b.minZ + b.maxZ, 50)]

\* auto-centre that aims at the minimum corner of the box
AutoCenter_cornerTarget(c, b) ==
    LET maxSize == Max2(Max2(b.maxX - b.minX, b.maxY - b.minY), b.maxZ - b.minZ)
    IN  [c EXCEPT !.targetX = b.minX, !.targetY = b.minY, !.targetZ = b.minZ,
                  !.distance = Mul(maxSize, 200)]

\* the camera after setPointCloud's auto-centre, b the recomputed bounds
AutoCenter(c, b) ==
    LET sizeX == b.maxX - b.minX
        sizeY == b.maxY - b.minY
        sizeZ == b.maxZ - b.minZ
        maxSize == Max2(Max2(sizeX, sizeY), sizeZ)
    IN  [c EXCEPT !.targetX = Mul(b.minX + b.maxX, 50),
                  !.targetY = Mul(b.minY + b.maxY, 50),
                  !.targetZ = Mul(b.minZ + b.maxZ, 50),
                  !.distance = Mul(maxSize, 200)]

-----------------------------------------------------------------------------
(* State *)

Bounds == [minX |-> minX, maxX |-> maxX, minY |-> minY,
           maxY |-> maxY, minZ |-> minZ, maxZ |-> maxZ]

Settings == [pointSize |-> pointSize, colorMode |-> colorMode, showGrid |-> showGrid,
             gridSpacing |-> gridSpacing, gridSize |-> gridSize,
             showAxisLabels |-> showAxisLabels]

Snapshot == [camera |-> camera, points |-> points, pointCount |-> pointCount,
             bounds |-> Bounds, settings |-> Settings]

\* the OpenGL context before the first draw call; a matrix is held as the sequence of
\* the factors multiplied onto the identity
GLInit == [depthTest |-> FALSE, blend |-> FALSE, pointSmooth |-> FALSE,
           lineWidth |-> 100, pointSize |-> 100,
           matrixMode |-> "GL_MODELVIEW", projection |-> <<>>, modelview |-> <<>>]

\* no draw stage has run since the last other operation
Unseen == [labels |-> [set |-> FALSE], raster |-> [set |-> FALSE]]

\* the cursor and the two buttons as they physically are in one frame
AtRest == [x |-> 0, y |-> 0, left |-> FALSE, right |-> FALSE]

\* main() is not running: the renderer is driven through its interface; physical holds
\* what the mouse physically did in the preceding and in the latest frame
NoMain == [pc |-> "none", frames |-> 0, points |-> <<>>, display |-> <<0, 0>>,
           mouse |-> [lastX |-> 0, lastY |-> 0, leftPressed |-> FALSE,
                      rightPressed |-> FALSE],
           physical |-> <<AtRest, AtRest>>]

\* bounds of the model
MaxPans   == 1      \* pan calls in one run
MaxYaw    == 360    \* orbit keeps |yaw| within this many degrees
MaxPoints == 2      \* samples in one cloud
MaxFrames == 1      \* iterations of the main loop in one run
MaxPanelFrames == 2 \* iterations of the main loop in one run of the panel alone
MaxMouseFrames == 3 \* iterations of the main loop in one run of the mouse alone

COLOR_RGB       == 0
COLOR_HEIGHT    == 1
COLOR_INTENSITY == 2
COLOR_UNIFORM   == 3

\* the renderer after its constructor
Constructed ==
    /\ camera = Camera_reset
    /\ points = <<>>
    /\ pointCount = 0
    /\ minX = 0 /\ maxX = 0 /\ minY = 0 /\ maxY = 0 /\ minZ = 0 /\ maxZ = 0
    /\ pointSize = 200
    /\ colorMode = COLOR_RGB
    /\ showGrid = TRUE
    /\ gridSpacing = 100
    /\ gridSize = 10
    /\ showAxisLabels = TRUE
    /\ gl = GLInit
    /\ frame = <<>>
    /\ labels = <<>>
    /\ seen = Unseen
    /\ pans = 0
    /\ sinceClear = [active |-> FALSE, bounds |-> calculateBounds(<<>>)]
    /\ last = [op |-> "construct", args |-> <<>>]
    /\ pre = [camera |-> Camera_reset, points |-> <<>>, pointCount |-> 0,
              bounds |-> calculateBounds(<<>>),
              settings |-> [pointSize |-> 200, colorMode |-> COLOR_RGB, showGrid |-> TRUE,
                            gridSpacing |-> 100, gridSize |-> 10, showAxisLabels |-> TRUE]]

Init == Constructed /\ main = NoMain

Logged(op, args) == last' = [op |-> op, args |-> args] /\ pre' = Snapshot

\* an operation called through the interface of the renderer
Did(op, args) == Logged(op, args) /\ UNCHANGED main

\* an operation that draws nothing
NoDraw == frame' = <<>> /\ labels' = <<>> /\ seen' = Unseen /\ UNCHANGED gl

-----------------------------------------------------------------------------
(* Camera operations *)

reset ==
    /\ camera' = Camera_reset
    /\ Did("reset", <<>>)
    /\ NoDraw
    /\ UNCHANGED <<store, settings, pans, sinceClear>>

orbit(deltaYaw, deltaPitch) ==
    /\ Abs(camera.yaw + deltaYaw) <= MaxYaw * FP
    /\ camera' = Camera_orbit(camera, deltaYaw, deltaPitch)
    /\ Did("orbit", <<deltaYaw, deltaPitch>>)
    /\ NoDraw
    /\ UNCHANGED <<store, settings, pans, sinceClear>>

pan(deltaX, deltaY) ==
    /\ pans < MaxPans
    /\ camera' = Camera_pan(camera, deltaX, deltaY)
    /\ pans' = pans + 1
    /\ Did("pan", <<deltaX, deltaY>>)
    /\ NoDraw
    /\ UNCHANGED <<store, settings, sinceClear>>

zoom(delta) ==
    /\ camera' = Camera_zoom(camera, delta)
    /\ Did("zoom", <<delta>>)
    /\ NoDraw
    /\ UNCHANGED <<store, settings, pans, sinceClear>>

setTopView ==
    /\ camera' = Camera_setTopView(camera)
    /\ Did("setTopView", <<>>)
    /\ NoDraw
    /\ UNCHANGED <<store, settings, pans, sinceClear>>

setFrontView ==
    /\ camera' = Camera_setFrontView(camera)
    /\ Did("setFrontView", <<>>)
    /\ NoDraw
    /\ UNCHANGED <<store, settings, pans, sinceClear>>

setSideView ==
    /\ camera' = Camera_setSideView(camera)
    /\ Did("setSideView", <<>>)
    /\ NoDraw
    /\ UNCHANGED <<store, settings, pans, sinceClear>>

setIsometricView ==
    /\ camera' = Camera_setIsometricView(camera)
    /\ Did("setIsometricView", <<>>)
    /\ NoDraw
    /\ UNCHANGED <<store, settings, pans, sinceClear>>

-----------------------------------------------------------------------------
(* Point store operations *)

setPointCloud(newPoints) ==
    LET b == calculateBounds(newPoints)
    IN  /\ points' = newPoints
        /\ pointCount' = Len(newPoints)
        /\ minX' = b.minX /\ maxX' = b.maxX
        /\ minY' = b.minY /\ maxY' = b.maxY
        /\ minZ' = b.minZ /\ maxZ' = b.maxZ
        /\ camera' = AutoCenter(camera, b)
        /\ Did("setPointCloud", <<newPoints>>)
        /\ sinceClear' = [active |-> FALSE, bounds |-> b]
        /\ NoDraw
        /\ UNCHANGED <<settings, pans>>

\* clearPointCloud that also recomputes the bounds of the emptied sequence
clearPointCloud_recalc ==
    /\ points' = <<>>
    /\ pointCount' = 0
    /\ minX' = 0 /\ maxX' = 0 /\ minY' = 0 /\ maxY' = 0 /\ minZ' = 0 /\ maxZ' = 0
    /\ sinceClear' = [active |-> TRUE, bounds |-> Bounds]
    /\ Did("clearPointCloud", <<>>)
    /\ NoDraw
    /\ UNCHANGED <<camera, settings, pans>>

clearPointCloud ==
    /\ points' = <<>>
    /\ pointCount' = 0
    /\ Did("clearPointCloud", <<>>)
    /\ sinceClear' = [active |-> TRUE, bounds |-> Bounds]
    /\ NoDraw
    /\ UNCHANGED <<camera, minX, maxX, minY, maxY, minZ, maxZ, settings, pans>>

-----------------------------------------------------------------------------
(* Configuration setters (point_cloud_renderer.h) *)

setPointSize(size) ==
    /\ pointSize' = size
    /\ Did("setPointSize", <<size>>)
    /\ NoDraw
    /\ UNCHANGED <<camera, store, colorMode, showGrid, gridSpacing, gridSize,
                   showAxisLabels, pans, sinceClear>>

setColorMode(mode) ==
    /\ colorMode' = mode
    /\ Did("setColorMode", <<mode>>)
    /\ NoDraw
    /\ UNCHANGED <<camera, store, pointSize, showGrid, gridSpacing, gridSize,
                   showAxisLabels, pans, sinceClear>>

setShowGrid(show) ==
    /\ showGrid' = show
    /\ Did("setShowGrid", <<show>>)
    /\ NoDraw
    /\ UNCHANGED <<camera, store, pointSize, colorMode, gridSpacing, gridSize,
                   showAxisLabels, pans, sinceClear>>

setGridSpacing(spacing) ==
    /\ gridSpacing' = spacing
    /\ Did("setGridSpacing", <<spacing>>)
    /\ NoDraw
    /\ UNCHANGED <<camera, store, pointSize, colorMode, showGrid, gridSize,
                   showAxisLabels, pans, sinceClear>>

setShowAxisLabels(show) ==
    /\ showAxisLabels' = show
    /\ Did("setShowAxisLabels", <<show>>)
    /\ NoDraw
    /\ UNCHANGED <<camera, store, pointSize, colorMode, showGrid, gridSpacing,
                   gridSize, pans, sinceClear>>

-----------------------------------------------------------------------------
(* Rendering *)

\* tan(fov / 2) for fov in FP degrees; no operation changes fov from 45
TanHalf(fov) == CASE fov = 4500 -> 41

\* the matrix glFrustum multiplies onto the current matrix
glFrustum(left, right, bottom, top, zNear, zFar) ==
    [factor |-> "frustum", left |-> left, right |-> right, bottom |-> bottom,
     top |-> top, zNear |-> zNear, zFar |-> zFar]

\* the matrix gluLookAt multiplies onto the current matrix
gluLookAt(eye, center, up) ==
    [factor |-> "lookAt", eye |-> eye, center |-> center, up |-> up]

\* applyTransform on context g: the context afterwards
applyTransform(g, c, width, height) ==
    LET aspect == RoundDiv(width * FP, height)
        fH == Mul(TanHalf(c.fov), 10)
        fW == Mul(fH, aspect)
        projection == Append(<<>>, glFrustum(-fW, fW, -fH, fH, 10, 1000000))
        camX == c.targetX + Mul(Mul(c.distance, Cos(c.pitch)), Sin(c.yaw))
        camY == c.targetY + Mul(c.distance, Sin(c.pitch))
        camZ == c.targetZ + Mul(Mul(c.distance, Cos(c.pitch)), Cos(c.yaw))
        modelview == Append(<<>>, gluLookAt(<<camX, camY, camZ>>,
                                            <<c.targetX, c.targetY, c.targetZ>>,
                                            <<0, FP, 0>>))
    IN  [g EXCEPT !.matrixMode = "GL_MODELVIEW",
                  !.projection = projection, !.modelview = modelview]

\* getProjectionMatrices that multiplies onto the pushed matrices without loading the
\* identity first
getProjectionMatrices_noIdentity(g, c, width, height) ==
    LET aspect == RoundDiv(width * FP, height)
        fH == Mul(TanHalf(c.fov), 10)
        fW == Mul(fH, aspect)
        projection == Append(g.projection, glFrustum(-fW, fW, -fH, fH, 10, 1000000))
        camX == c.targetX + Mul(Mul(c.distance, Cos(c.pitch)), Sin(c.yaw))
        camY == c.targetY + Mul(c.distance, Sin(c.pitch))
        camZ == c.targetZ + Mul(Mul(c.distance, Cos(c.pitch)), Cos(c.yaw))
        modelview == Append(g.modelview, gluLookAt(<<camX, camY, camZ>>,
                                                   <<c.targetX, c.targetY, c.targetZ>>,
                                                   <<0, FP, 0>>))
    IN  [gl |-> [g EXCEPT !.matrixMode = "GL_MODELVIEW"],
         modelview |-> modelview, projection |-> projection,
         viewport |-> <<0, 0, width, height>>]

\* getProjectionMatrices on context g: the context afterwards (both matrices pushed,
\* rebuilt from the identity, read back and popped) and the three arrays it fills
getProjectionMatrices(g, c, width, height) ==
    LET aspect == RoundDiv(width * FP, height)
        fH == Mul(TanHalf(c.fov), 10)
        fW == Mul(fH, aspect)
        projection == Append(<<>>, glFrustum(-fW, fW, -fH, fH, 10, 1000000))
        camX == c.targetX + Mul(Mul(c.distance, Cos(c.pitch)), Sin(c.yaw))
        camY == c.targetY + Mul(c.distance, Sin(c.pitch))
        camZ == c.targetZ + Mul(Mul(c.distance, Cos(c.pitch)), Cos(c.yaw))
        modelview == Append(<<>>, gluLookAt(<<camX, camY, camZ>>,
                                            <<c.targetX, c.targetY, c.targetZ>>,
                                            <<0, FP, 0>>))
    IN  [gl |-> [g EXCEPT !.matrixMode = "GL_MODELVIEW"],
         modelview |-> modelview, projection |-> projection,
         viewport |-> <<0, 0, width, height>>]

Line(g, a, b, color, part) ==
    [kind |-> "line", part |-> part, a |-> a, b |-> b, color |-> color,
     width |-> g.lineWidth, depthTest |-> g.depthTest, blend |-> g.blend]

\* (int)(a / b) for b # 0: the quotient cut towards zero
TruncDiv(a, b) ==
    LET q == Abs(a) \div Abs(b)
    IN  IF (a < 0) = (b < 0) THEN q ELSE -q

\* (int)(size / spacing) + 1; with spacing 0 the quotient is infinite and its conversion
\* to int is undefined: undef is the count the build then comes up with
NumLines(size, spacing, undef) ==
    IF spacing = 0 THEN undef ELSE TruncDiv(size, spacing) + 1

\* grid positions with the clamp to the far side of the box left out
GridPositions_noClamp(lo, hi, spacing, undef) ==
    LET numLines == NumLines(hi - lo, spacing, undef)
    IN  [k \in 1..(numLines + 1) |-> lo + (k - 1) * spacing]

\* the positions of one loop "for (i = 0; i <= numLines; ++i)" along one axis
GridPositions(lo, hi, spacing, undef) ==
    LET numLines == NumLines(hi - lo, spacing, undef)
    IN  [k \in 1..(numLines + 1) |->
            LET v == lo + (k - 1) * spacing
            IN  IF v > hi THEN hi ELSE v]

\* one family of grid lines: for every position v, the line from a to b with both
\* ends moved to v along the stepped axis (1 = x, 2 = y, 3 = z)
Family(g, pos, axis, a, b, color, part) ==
    [k \in 1..Len(pos) |->
        Line(g, [a EXCEPT ![axis] = pos[k]], [b EXCEPT ![axis] = pos[k]], color, part)]

\* the drawing part of renderGrid, on a box with three non-zero dimensions: the six
\* families of grid lines, the edges of the box and the three axis lines
GridLines(g, b, spacing, undef) ==
    LET sizeX == b.maxX - b.minX
        sizeY == b.maxY - b.minY
        sizeZ == b.maxZ - b.minZ
        g1 == [g EXCEPT !.depthTest = FALSE, !.blend = TRUE, !.lineWidth = 100]
        g2 == [g1 EXCEPT !.lineWidth = 200]
        g3 == [g1 EXCEPT !.lineWidth = 300]
        px == GridPositions(b.minX, b.maxX, spacing, undef)
        py == GridPositions(b.minY, b.maxY, spacing, undef)
        pz == GridPositions(b.minZ, b.maxZ, spacing, undef)
        bottom == <<60, 60, 60, 70>>
        back   == <<50, 50, 60, 50>>
        left   == <<60, 50, 50, 50>>
        edge   == <<30, 30, 30, 90>>
        c000 == <<b.minX, b.minY, b.minZ>>
        c100 == <<b.maxX, b.minY, b.minZ>>
        c101 == <<b.maxX, b.minY, b.maxZ>>
        c001 == <<b.minX, b.minY, b.maxZ>>
        c010 == <<b.minX, b.maxY, b.minZ>>
        c110 == <<b.maxX, b.maxY, b.minZ>>
        c011 == <<b.minX, b.maxY, b.maxZ>>
        grid == Family(g1, pz, 3, c000, c100, bottom, "bottom_z")
             \o Family(g1, px, 1, c000, c001, bottom, "bottom_x")
             \o Family(g1, py, 2, c000, c100, back, "back_y")
             \o Family(g1, px, 1, c000, c010, back, "back_x")
             \o Family(g1, py, 2, c000, c001, left, "left_y")
             \o Family(g1, pz, 3, c000, c010, left, "left_z")
        box == << Line(g2, c000, c100, edge, "box"), Line(g2, c100, c101, edge, "box"),
                  Line(g2, c101, c001, edge, "box"), Line(g2, c001, c000, edge, "box"),
                  Line(g2, c000, c010, edge, "box"), Line(g2, c100, c110, edge, "box"),
                  Line(g2, c001, c011, edge, "box"),
                  Line(g2, c010, c110, edge, "box"), Line(g2, c010, c011, edge, "box") >>
        axisLength == Mul(Min2(Min2(sizeX, sizeY), sizeZ), 15)
        axes == << Line(g3, c000, <<b.minX + axisLength, b.minY, b.minZ>>,
                        <<100, 0, 0, 100>>, "axis"),
                   Line(g3, c000, <<b.minX, b.minY + axisLength, b.minZ>>,
                        <<0, 100, 0, 100>>, "axis"),
                   Line(g3, c000, <<b.minX, b.minY, b.minZ + axisLength>>,
                        <<0, 0, 100, 100>>, "axis") >>
    IN  [gl |-> [g EXCEPT !.depthTest = TRUE, !.blend = FALSE, !.lineWidth = 100],
         lines |-> grid \o box \o axes]

\* renderGrid that switches the context to line drawing before it tests whether there
\* is a grid to draw
renderGrid_stateFirst(g, b, show, spacing, undef) ==
    LET g1 == [g EXCEPT !.depthTest = FALSE, !.blend = TRUE, !.lineWidth = 100]
    IN  IF ~show THEN [gl |-> g1, lines |-> <<>>]
        ELSE IF b.maxX - b.minX = 0 \/ b.maxY - b.minY = 0 \/ b.maxZ - b.minZ = 0
        THEN [gl |-> g1, lines |-> <<>>]
        ELSE GridLines(g, b, spacing, undef)

\* renderGrid on context g: [gl |-> the context afterwards, lines |-> the lines emitted]
renderGrid(g, b, show, spacing, undef) ==
    LET sizeX == b.maxX - b.minX
        sizeY == b.maxY - b.minY
        sizeZ == b.maxZ - b.minZ
    IN  IF ~show THEN [gl |-> g, lines |-> <<>>]
        ELSE IF sizeX = 0 \/ sizeY = 0 \/ sizeZ = 0 THEN [gl |-> g, lines |-> <<>>]
        ELSE GridLines(g, b, spacing, undef)

NaN == "NaN"
PosInf == "+Inf"
NegInf == "-Inf"

\* height colouring with the gradient turned round: blue at the top, red at the bottom
HeightColor_downward(p, b) ==
    LET num == p.y - b.minY
        den == b.maxY - b.minY
    IN  IF den = 0
        THEN IF num = 0 THEN <<NaN, NaN, NaN>>
             ELSE IF num > 0 THEN <<PosInf, NegInf, NegInf>>
             ELSE <<NegInf, NegInf, PosInf>>
        ELSE LET t == RoundDiv(num * FP, den)
             IN  <<FP - t, FP - Mul(Abs(t - 50), 200), t>>

\* the colour glColor3f receives for sample p in height mode
HeightColor(p, b) ==
    LET num == p.y - b.minY
        den == b.maxY - b.minY
    IN  IF den = 0
        THEN IF num = 0 THEN <<NaN, NaN, NaN>>
             ELSE IF num > 0 THEN <<PosInf, NegInf, NegInf>>
             ELSE <<NegInf, NegInf, PosInf>>
        ELSE LET t == RoundDiv(num * FP, den)
             IN  <<t, FP - Mul(Abs(t - 50), 200), FP - t>>

PointColor(p, mode, b) ==
    CASE mode = COLOR_RGB       -> <<p.r, p.g, p.b>>
      [] mode = COLOR_HEIGHT    -> HeightColor(p, b)
      [] mode = COLOR_INTENSITY -> <<p.intensity, p.intensity, p.intensity>>
      [] mode = COLOR_UNIFORM   -> <<FP, FP, FP>>

\* a point stage that is skipped in height mode when the Y extent is zero
PointVertices_guarded(g, pts, count, mode, b) ==
    IF count = 0 \/ (mode = COLOR_HEIGHT /\ b.maxY = b.minY) THEN <<>>
    ELSE [k \in 1..Len(pts) |->
            [kind |-> "point", a |-> <<pts[k].x, pts[k].y, pts[k].z>>,
             color |-> PointColor(pts[k], mode, b), size |-> g.pointSize,
             depthTest |-> g.depthTest, blend |-> g.blend]]

\* the point stage of render on context g: the vertices emitted, in order
PointVertices(g, pts, count, mode, b) ==
    IF count = 0 THEN <<>>
    ELSE [k \in 1..Len(pts) |->
            [kind |-> "point", a |-> <<pts[k].x, pts[k].y, pts[k].z>>,
             color |-> PointColor(pts[k], mode, b), size |-> g.pointSize,
             depthTest |-> g.depthTest, blend |-> g.blend]]

\* what a draw stage called with (width, height) works from
View(width, height) ==
    [camera |-> camera, bounds |-> Bounds, gridSpacing |-> gridSpacing,
     width |-> width, height |-> height]

\* render that leaves the depth test as the grid stage left it
DrawScene_noDepthEnable(width, height, undef) ==
    LET g0 == applyTransform(gl, camera, width, height)
        grid == renderGrid(g0, Bounds, showGrid, gridSpacing, undef)
        g1 == [grid.gl EXCEPT !.pointSmooth = TRUE, !.pointSize = pointSize]
    IN  /\ frame' = grid.lines \o PointVertices(g1, points, pointCount, colorMode, Bounds)
        /\ gl' = IF pointCount = 0 THEN grid.gl ELSE [g1 EXCEPT !.pointSmooth = FALSE]
        /\ labels' = <<>>
        /\ seen' = [seen EXCEPT !.raster = [set |-> TRUE, view |-> View(width, height),
                                            gl |-> gl]]

\* the body of PointCloudRenderer::render
DrawScene(width, height, undef) ==
    LET g0 == applyTransform(gl, camera, width, height)
        grid == renderGrid(g0, Bounds, showGrid, gridSpacing, undef)
        g1 == [grid.gl EXCEPT !.depthTest = TRUE, !.pointSmooth = TRUE,
                              !.pointSize = pointSize]
    IN  /\ frame' = grid.lines \o PointVertices(g1, points, pointCount, colorMode, Bounds)
        /\ gl' = IF pointCount = 0 THEN grid.gl ELSE [g1 EXCEPT !.pointSmooth = FALSE]
        /\ labels' = <<>>
        /\ seen' = [seen EXCEPT !.raster = [set |-> TRUE, view |-> View(width, height),
                                            gl |-> gl]]

\* counts an int may hold after the conversion of an infinite quotient
UndefinedCounts == {-1, 2}

render(width, height) ==
    /\ \E undef \in UndefinedCounts : DrawScene(width, height, undef)
    /\ Did("render", <<width, height>>)
    /\ UNCHANGED <<camera, store, settings, pans, sinceClear>>

\* snprintf(label, "%.1f", v): the text, as the count of tenths it prints
Format1(v) == RoundDiv(v, 10)

\* the positions of one label loop "for (i = 0; i <= numLines; i += skip)"
LabelPositions(lo, hi, spacing, undef) ==
    LET numLines == NumLines(hi - lo, spacing, undef)
        skip == IF numLines > 10 THEN 2 ELSE 1
        count == IF numLines < 0 THEN 0 ELSE (numLines \div skip) + 1
    IN  [k \in 1..count |->
            LET v == lo + ((k - 1) * skip) * spacing
            IN  IF v > hi THEN hi ELSE v]

\* the labels of one axis, one for every position, before projection
AxisLabels(pos, axis, corner, color) ==
    [k \in 1..Len(pos) |->
        [kind |-> "label", axis |-> axis, world |-> [corner EXCEPT ![axis] = pos[k]],
         text |-> Format1(pos[k]), color |-> color]]

\* gluProject is handed the float arrays as arrays of double and reads past their end:
\* which labels it lets through is undefined.  An outcome names the labels drawn.
ProjectOutcomes == {"all", "none", "alternate"}

Projected(outcome, k) ==
    CASE outcome = "all"       -> TRUE
      [] outcome = "none"      -> FALSE
      [] outcome = "alternate" -> k % 2 = 1

\* the labels of cands that the projection lets through, in order
Keep(cands, outcome) ==
    LET Through(k) == Projected(outcome, k)
        idx == SelectSeq([k \in 1..Len(cands) |-> k], Through)
    IN  [j \in 1..Len(idx) |-> cands[idx[j]]]

\* the body of PointCloudRenderer::renderAxisLabels
DrawLabels(screenWidth, screenHeight, undef, outcome) ==
    IF ~showAxisLabels \/ ~showGrid \/ maxX = minX \/ maxY = minY \/ maxZ = minZ
    THEN /\ labels' = <<>>
         /\ frame' = <<>>
         /\ seen' = [seen EXCEPT !.labels = [set |-> TRUE,
                                             view |-> View(screenWidth, screenHeight),
                                             gl |-> gl, fetched |-> [ok |-> FALSE]]]
         /\ UNCHANGED gl
    ELSE LET m == getProjectionMatrices(gl, camera, screenWidth, screenHeight)
             corner == <<minX, minY, minZ>>
             cands ==
                AxisLabels(LabelPositions(minX, maxX, gridSpacing, undef), 1, corner,
                           <<255, 100, 100, 255>>)
                \o AxisLabels(LabelPositions(minY, maxY, gridSpacing, undef), 2, corner,
                              <<100, 255, 100, 255>>)
                \o AxisLabels(LabelPositions(minZ, maxZ, gridSpacing, undef), 3, corner,
                              <<100, 100, 255, 255>>)
         IN  /\ labels' = Keep(cands, outcome)
             /\ frame' = <<>>
             /\ gl' = m.gl
             /\ seen' = [seen EXCEPT !.labels =
                            [set |-> TRUE, view |-> View(screenWidth, screenHeight),
                             gl |-> gl,
                             fetched |-> [ok |-> TRUE, modelview |-> m.modelview,
                                          projection |-> m.projection,
                                          viewport |-> m.viewport]]]

renderAxisLabels(screenWidth, screenHeight) ==
    /\ \E undef \in UndefinedCounts, outcome \in ProjectOutcomes :
          DrawLabels(screenWidth, screenHeight, undef, outcome)
    /\ Did("renderAxisLabels", <<screenWidth, screenHeight>>)
    /\ UNCHANGED <<camera, store, settings, pans, sinceClear>>

-----------------------------------------------------------------------------
(* Inputs *)

Sample(x, y, z, r, g, b, intensity) ==
    [x |-> x, y |-> y, z |-> z, r |-> r, g |-> g, b |-> b, intensity |-> intensity]

\* two opposite corners of the cube [-5,5]^3, an inner sample, and a far sample
SampleA == Sample(-500,  500, -500,   0, 100,   0,  30)
SampleB == Sample( 500, -500,  500, 100,   0, 100,  80)
SampleC == Sample( 100,  200,  300,  60,  80,  20, 100)
SampleD == Sample(60000, 200, -400, 100,  50,  50,  50)

\* three samples at heights 0, 5 and 10
SampleLow  == Sample(   0,    0,    0, 100, 100, 100,  10)
SampleMid  == Sample( 300,  500,  200,  50,  50,  50,  50)
SampleHigh == Sample(1000, 1000, 1000,   0,   0,   0,  90)

\* a sample at the height of SampleC
SampleLevel == Sample( 400,  200, -100,  10,  20,  30,  40)

RECURSIVE SeqsUpTo(_, _)
\* all sequences over S of length at most n
SeqsUpTo(S, n) ==
    IF n = 0 THEN {<<>>}
    ELSE LET shorter == SeqsUpTo(S, n - 1)
         IN  shorter \cup {Append(q, e) : q \in {t \in shorter : Len(t) = n - 1}, e \in S}

Clouds       == SeqsUpTo({SampleA, SampleB, SampleC}, MaxPoints)
CameraClouds == {<<>>, <<SampleD, SampleA>>}
RenderClouds == {<<>>, <<SampleC>>, <<SampleA, SampleB>>, <<SampleA, SampleC>>}
HeightClouds == {<<SampleC>>, <<SampleC, SampleLevel>>, <<SampleA, SampleB>>,
                 <<SampleLow, SampleMid, SampleHigh>>}
GridClouds   == {<<>>, <<SampleC>>, <<SampleA, SampleB>>, <<SampleA, SampleC>>}

YawDeltas   == {0, 18000}
PitchDeltas == {0, 100000, -100000, 17800}
PanDeltas   == {<<0, 0>>, <<3000, 3000>>}
PanInputs   == {<<0, 0>>, <<3000, 3000>>, <<4000, 1000>>, <<-2000, 500>>}
ZoomDeltas  == {-100000, 0, 990, 10000}
Viewports   == {<<1600, 900>>}
Displays    == {<<1600, 900>>, <<800, 600>>}

\* what the mouse does in one frame: <<panel captures it, cursor x, cursor y, left
\* button down, right button down>>
MouseInputs == {<<FALSE, 0, 0, FALSE, FALSE>>, <<FALSE, 0, 0, TRUE, FALSE>>,
                <<FALSE, 9000, 0, TRUE, FALSE>>, <<TRUE, 9000, 0, TRUE, FALSE>>}
\* the mouse over three frames and more: at rest, a button pressed, held and moved,
\* released, in and out of the panel
MouseFrames == {<<FALSE, 0, 0, FALSE, FALSE>>, <<TRUE, 0, 0, FALSE, FALSE>>,
                <<FALSE, 0, 0, TRUE, FALSE>>, <<FALSE, 9000, 23800, TRUE, FALSE>>,
                <<TRUE, 9000, 23800, TRUE, FALSE>>,
                <<FALSE, 0, 0, FALSE, TRUE>>, <<FALSE, 9000, 23800, FALSE, TRUE>>,
                <<TRUE, 9000, 23800, FALSE, FALSE>>}
ScrollInputs == {<<FALSE, 0>>, <<FALSE, 990>>, <<TRUE, 990>>}

\* what the sliders and the generator of the control panel deliver
PanelPointSizes == {1000}
PanelModes      == {COLOR_HEIGHT}
PanelSpacings   == {300}
PanelClouds     == {<<SampleA, SampleC>>}
Spacings    == {100, 300}
GridSpacings == {100, 300, 1000}
AnySpacings  == {-1000, 0, 10, 100}
PointSizes  == {10, 200}
ColorModes  == {COLOR_RGB, COLOR_HEIGHT, COLOR_INTENSITY, COLOR_UNIFORM}

-----------------------------------------------------------------------------
(* main() of the example: one iteration of its loop is the stages mouse, scroll, panel,
   labels, render, in this order *)

\* a loop that builds the control panel between the two draw stages
NextStage_panelLate(pc) ==
    CASE pc = "start"  -> "mouse"
      [] pc = "mouse"  -> "scroll"
      [] pc = "scroll" -> "labels"
      [] pc = "labels" -> "panel"
      [] pc = "panel"  -> "render"
      [] pc = "render" -> "mouse"

NextStage(pc) ==
    CASE pc = "start"  -> "mouse"
      [] pc = "mouse"  -> "scroll"
      [] pc = "scroll" -> "panel"
      [] pc = "panel"  -> "labels"
      [] pc = "labels" -> "render"
      [] pc = "render" -> "mouse"

\* main() after it constructed the renderer
InitMain ==
    /\ Constructed
    /\ main = [pc |-> "start", frames |-> 0, points |-> <<>>, display |-> <<0, 0>>,
               mouse |-> [lastX |-> 0, lastY |-> 0, leftPressed |-> FALSE,
                          rightPressed |-> FALSE],
               physical |-> <<AtRest, AtRest>>]

\* the stage at pc ran op and the loop moves on
Stage(pc, op, args) ==
    /\ main.pc = pc
    /\ Logged(op, args)

Advance == main' = [main EXCEPT !.pc = NextStage(@)]

\* points = generateSampleLidarData(numPoints); renderer.setPointCloud(points)
Main_LoadCloud(pc, cloud) ==
    LET b == calculateBounds(cloud)
    IN  /\ Stage(pc, "setPointCloud", <<cloud>>)
        /\ main' = [main EXCEPT !.pc = NextStage(@), !.points = cloud]
        /\ points' = cloud
        /\ pointCount' = Len(cloud)
        /\ minX' = b.minX /\ maxX' = b.maxX
        /\ minY' = b.minY /\ maxY' = b.maxY
        /\ minZ' = b.minZ /\ maxZ' = b.maxZ
        /\ camera' = AutoCenter(camera, b)
        /\ sinceClear' = [active |-> FALSE, bounds |-> b]
        /\ NoDraw
        /\ UNCHANGED <<settings, pans>>

Main_Start(cloud) == Main_LoadCloud("start", cloud)

\* the mouse block: orbit on a held left button, pan on a held right button, by the
\* cursor's move since the last frame; nothing while the panel captures the mouse
Main_MouseBlock(capture, mouseX, mouseY, left, right) ==
    LET dx == mouseX - main.mouse.lastX
        dy == mouseY - main.mouse.lastY
        orbits == ~capture /\ left /\ main.mouse.leftPressed
        pansNow == ~capture /\ right /\ main.mouse.rightPressed
        c1 == IF orbits THEN Camera_orbit(camera, Mul(dx, 50), Mul(-dy, 50)) ELSE camera
        c2 == IF pansNow THEN Camera_pan(c1, dx, dy) ELSE c1
    IN  /\ Stage("mouse", "mouse", <<capture, mouseX, mouseY, left, right>>)
        /\ Abs(c1.yaw) <= MaxYaw * FP
        /\ pansNow => pans < MaxPans
        /\ camera' = c2
        /\ pans' = IF pansNow THEN pans + 1 ELSE pans
        /\ main' = [main EXCEPT
                       !.pc = NextStage(@),
                       !.mouse = IF capture THEN @
                                 ELSE [lastX |-> mouseX, lastY |-> mouseY,
                                       leftPressed |-> left, rightPressed |-> right],
                       !.physical = <<@[2], [x |-> mouseX, y |-> mouseY,
                                             left |-> left, right |-> right]>>]
        /\ NoDraw
        /\ UNCHANGED <<store, settings, sinceClear>>

\* the mouse block of a run of at most MaxFrames iterations
Main_HandleMouse(capture, mouseX, mouseY, left, right) ==
    /\ main.frames < MaxFrames
    /\ Main_MouseBlock(capture, mouseX, mouseY, left, right)

\* the scroll block: zoom by the wheel unless the panel captures the mouse
Main_HandleScroll(capture, wheel) ==
    /\ Stage("scroll", "scroll", <<capture, wheel>>)
    /\ Advance
    /\ camera' = IF ~capture /\ wheel # 0 THEN Camera_zoom(camera, wheel) ELSE camera
    /\ NoDraw
    /\ UNCHANGED <<store, settings, pans, sinceClear>>

\* the control panel in a frame in which no widget is operated
Main_PanelIdle ==
    /\ Stage("panel", "panel", <<>>)
    /\ Advance /\ NoDraw
    /\ UNCHANGED <<camera, store, settings, pans, sinceClear>>

\* the control panel: at most one widget is operated in a frame
Main_ControlPanel ==
    \/ Main_PanelIdle
    \/ \E v \in PanelPointSizes :
          /\ Stage("panel", "setPointSize", <<v>>)
          /\ pointSize' = v
          /\ Advance /\ NoDraw
          /\ UNCHANGED <<camera, store, colorMode, showGrid, gridSpacing, gridSize,
                         showAxisLabels, pans, sinceClear>>
    \/ \E m \in PanelModes :
          /\ Stage("panel", "setColorMode", <<m>>)
          /\ colorMode' = m
          /\ Advance /\ NoDraw
          /\ UNCHANGED <<camera, store, pointSize, showGrid, gridSpacing, gridSize,
                         showAxisLabels, pans, sinceClear>>
    \/ /\ Stage("panel", "setShowGrid", <<~showGrid>>)
       /\ showGrid' = ~showGrid
       /\ Advance /\ NoDraw
       /\ UNCHANGED <<camera, store, pointSize, colorMode, gridSpacing, gridSize,
                      showAxisLabels, pans, sinceClear>>
    \/ \E v \in PanelSpacings :
          /\ showGrid
          /\ Stage("panel", "setGridSpacing", <<v>>)
          /\ gridSpacing' = v
          /\ Advance /\ NoDraw
          /\ UNCHANGED <<camera, store, pointSize, colorMode, showGrid, gridSize,
                         showAxisLabels, pans, sinceClear>>
    \/ /\ showGrid
       /\ Stage("panel", "setShowAxisLabels", <<~showAxisLabels>>)
       /\ showAxisLabels' = ~showAxisLabels
       /\ Advance /\ NoDraw
       /\ UNCHANGED <<camera, store, pointSize, colorMode, showGrid, gridSpacing,
                      gridSize, pans, sinceClear>>
    \/ \E cloud \in PanelClouds :
          Main_LoadCloud("panel", cloud)
    \/ /\ Stage("panel", "clearPointCloud", <<>>)
       /\ points' = <<>>
       /\ pointCount' = 0
       /\ sinceClear' = [active |-> TRUE, bounds |-> Bounds]
       /\ Advance /\ NoDraw
       /\ UNCHANGED <<camera, minX, maxX, minY, maxY, minZ, maxZ, settings, pans>>
    \/ LET b == calculateBounds(main.points)
       IN  /\ Stage("panel", "resetCamera", <<>>)
           /\ points' = main.points
           /\ pointCount' = Len(main.points)
           /\ minX' = b.minX /\ maxX' = b.maxX
           /\ minY' = b.minY /\ maxY' = b.maxY
           /\ minZ' = b.minZ /\ maxZ' = b.maxZ
           /\ camera' = AutoCenter(Camera_reset, b)
           /\ sinceClear' = [active |-> FALSE, bounds |-> b]
           /\ Advance /\ NoDraw
           /\ UNCHANGED <<settings, pans>>
    \/ \E view \in {"setTopView", "setFrontView", "setSideView", "setIsometricView"} :
          /\ Stage("panel", view, <<>>)
          /\ camera' = CASE view = "setTopView"       -> Camera_setTopView(camera)
                          [] view = "setFrontView"     -> Camera_setFrontView(camera)
                          [] view = "setSideView"      -> Camera_setSideView(camera)
                          [] view = "setIsometricView" -> Camera_setIsometricView(camera)
          /\ Advance /\ NoDraw
          /\ UNCHANGED <<store, settings, pans, sinceClear>>

\* glfwGetFramebufferSize(window, &display_w, &display_h); renderAxisLabels(display_w,
\* display_h)
Main_renderAxisLabels(display_w, display_h) ==
    /\ Stage("labels", "renderAxisLabels", <<display_w, display_h>>)
    /\ main' = [main EXCEPT !.pc = NextStage(@), !.display = <<display_w, display_h>>]
    /\ \E undef \in UndefinedCounts, outcome \in ProjectOutcomes :
          DrawLabels(display_w, display_h, undef, outcome)
    /\ UNCHANGED <<camera, store, settings, pans, sinceClear>>

\* renderer.render(display_w, display_h)
Main_render ==
    /\ Stage("render", "render", main.display)
    /\ main' = [main EXCEPT !.pc = NextStage(@), !.frames = @ + 1]
    /\ \E undef \in UndefinedCounts : DrawScene(main.display[1], main.display[2], undef)
    /\ UNCHANGED <<camera, store, settings, pans, sinceClear>>

-----------------------------------------------------------------------------
(* Specifications *)

CameraOps ==
    \/ reset
    \/ \E dy \in YawDeltas, dp \in PitchDeltas : orbit(dy, dp)
    \/ \E d \in PanDeltas : pan(d[1], d[2])
    \/ \E d \in ZoomDeltas : zoom(d)
    \/ setTopView
    \/ setFrontView
    \/ setSideView
    \/ setIsometricView

SettingOps ==
    \/ \E v \in PointSizes : setPointSize(v)
    \/ \E m \in ColorModes : setColorMode(m)
    \/ \E v \in BOOLEAN : setShowGrid(v)
    \/ \E v \in Spacings : setGridSpacing(v)
    \/ \E v \in BOOLEAN : setShowAxisLabels(v)

\* the camera under every camera operation and point-store replacement
NextCamera ==
    \/ CameraOps
    \/ \E s \in CameraClouds : setPointCloud(s)
    \/ clearPointCloud

SpecCamera == Init /\ [][NextCamera]_vars

\* pan from every heading on the 45 degree steps, at several distances
NextPan ==
    \/ \E d \in PanInputs : pan(d[1], d[2])
    \/ orbit(4500, 0)
    \/ \E d \in {990, -100000} : zoom(d)
    \/ \E s \in CameraClouds : setPointCloud(s)
    \/ reset

SpecPan == Init /\ [][NextPan]_vars

\* the point store under every cloud of the sample set, from varied camera states
NextStore ==
    \/ \E s \in Clouds : setPointCloud(s)
    \/ clearPointCloud
    \/ zoom(10000)
    \/ setTopView

SpecStore == Init /\ [][NextStore]_vars

\* the render pipeline under every setting and every cloud of the cube
NextRender ==
    \/ \E s \in RenderClouds : setPointCloud(s)
    \/ clearPointCloud
    \/ \E m \in {COLOR_RGB, COLOR_HEIGHT} : setColorMode(m)
    \/ \E v \in BOOLEAN : setShowGrid(v)
    \/ \E v \in Spacings : setGridSpacing(v)
    \/ \E v \in Viewports : render(v[1], v[2])

SpecRender == Init /\ [][NextRender]_vars

\* the point stage under both a flat and a tall cloud, in and out of height mode
NextHeight ==
    \/ \E s \in HeightClouds : setPointCloud(s)
    \/ clearPointCloud
    \/ \E m \in ColorModes : setColorMode(m)
    \/ \E v \in Viewports : render(v[1], v[2])

SpecHeight == Init /\ [][NextHeight]_vars

\* the grid and the label stage under every grid setting
NextGrid ==
    \/ \E s \in GridClouds : setPointCloud(s)
    \/ clearPointCloud
    \/ \E v \in BOOLEAN : setShowGrid(v)
    \/ \E v \in GridSpacings : setGridSpacing(v)
    \/ \E v \in BOOLEAN : setShowAxisLabels(v)
    \/ \E v \in Viewports : renderAxisLabels(v[1], v[2])
    \/ \E v \in Viewports : render(v[1], v[2])

SpecGrid == Init /\ [][NextGrid]_vars

\* the grid under every value setGridSpacing accepts
NextSpacing ==
    \/ \E v \in AnySpacings : setGridSpacing(v)
    \/ \E v \in BOOLEAN : setShowGrid(v)
    \/ \E s \in {<<>>, <<SampleA, SampleC>>} : setPointCloud(s)
    \/ \E v \in Viewports : renderAxisLabels(v[1], v[2])
    \/ \E v \in Viewports : render(v[1], v[2])

SpecSpacing == Init /\ [][NextSpacing]_vars

\* the transform of both draw stages, from varied cameras and window sizes
NextTransform ==
    \/ \E s \in {<<>>, <<SampleA, SampleC>>} : setPointCloud(s)
    \/ zoom(990)
    \/ setTopView
    \/ \E v \in Displays : renderAxisLabels(v[1], v[2])
    \/ \E v \in Displays : render(v[1], v[2])

SpecTransform == Init /\ [][NextTransform]_vars

\* main() of the example, frame after frame
NextMain ==
    \/ Main_Start(<<SampleA, SampleB>>)
    \/ \E m \in MouseInputs : Main_HandleMouse(m[1], m[2], m[3], m[4], m[5])
    \/ \E w \in ScrollInputs : Main_HandleScroll(w[1], w[2])
    \/ Main_ControlPanel
    \/ \E d \in Displays : Main_renderAxisLabels(d[1], d[2])
    \/ Main_render

SpecMain == InitMain /\ [][NextMain]_vars

\* main() with the mouse at rest: frame after frame, one widget of the panel each
NextPanel ==
    \/ Main_Start(<<SampleA, SampleB>>)
    \/ /\ main.frames < MaxPanelFrames
       /\ Main_MouseBlock(FALSE, 0, 0, FALSE, FALSE)
    \/ Main_HandleScroll(FALSE, 0)
    \/ Main_ControlPanel
    \/ Main_renderAxisLabels(1600, 900)
    \/ Main_render

SpecPanel == InitMain /\ [][NextPanel]_vars

\* main() with the panel untouched: frame after frame of mouse input
NextMouse ==
    \/ Main_Start(<<SampleA, SampleB>>)
    \/ /\ main.frames < MaxMouseFrames
       /\ \E m \in MouseFrames : Main_MouseBlock(m[1], m[2], m[3], m[4], m[5])
    \/ Main_HandleScroll(FALSE, 0)
    \/ Main_PanelIdle
    \/ Main_renderAxisLabels(1600, 900)
    \/ Main_render

SpecMouse == InitMain /\ [][NextMouse]_vars

Next ==
    \/ CameraOps
    \/ \E s \in Clouds \cup CameraClouds : setPointCloud(s)
    \/ clearPointCloud
    \/ SettingOps
    \/ \E v \in Viewports : renderAxisLabels(v[1], v[2])
    \/ \E v \in Viewports : render(v[1], v[2])

Spec == Init /\ [][Next]_vars

-----------------------------------------------------------------------------
(* Properties *)

Clamp(x, lo, hi) == Max2(lo, Min2(x, hi))

Coords(pts, axis) ==
    {(CASE axis = "x" -> pts[i].x [] axis = "y" -> pts[i].y [] axis = "z" -> pts[i].z) :
        i \in DOMAIN pts}

Lowest(S)  == CHOOSE v \in S : \A w \in S : v <= w
Highest(S) == CHOOSE v \in S : \A w \in S : w <= v

\* the axis-aligned bounding box of a sequence of samples, the zero box when it is empty
BoxOf(pts) ==
    IF pts = <<>>
    THEN [minX |-> 0, maxX |-> 0, minY |-> 0, maxY |-> 0, minZ |-> 0, maxZ |-> 0]
    ELSE [minX |-> Lowest(Coords(pts, "x")), maxX |-> Highest(Coords(pts, "x")),
          minY |-> Lowest(Coords(pts, "y")), maxY |-> Highest(Coords(pts, "y")),
          minZ |-> Lowest(Coords(pts, "z")), maxZ |-> Highest(Coords(pts, "z"))]

After(op) == last.op = op

\* C1: in every state reached by setPointCloud and clearPointCloud calls the stored
\* bounding box is the bounding box of the stored sequence, and the zero box when the
\* stored sequence is empty.
C1_BoundsAreFresh == <<minX, maxX, minY, maxY, minZ, maxZ>> =
    <<BoxOf(points).minX, BoxOf(points).maxX, BoxOf(points).minY,
      BoxOf(points).maxY, BoxOf(points).minZ, BoxOf(points).maxZ>>

\* C2: after setPointCloud(s) with s non-empty every sample lies within the bounds on
\* every axis and each of the six bounds is the coordinate of some sample of s.
C2_BoundsEncloseAndTight ==
    (After("setPointCloud") /\ last.args[1] # <<>>) =>
        /\ points = last.args[1]
        /\ \A i \in DOMAIN points :
              /\ minX <= points[i].x /\ points[i].x <= maxX
              /\ minY <= points[i].y /\ points[i].y <= maxY
              /\ minZ <= points[i].z /\ points[i].z <= maxZ
        /\ minX \in Coords(points, "x") /\ maxX \in Coords(points, "x")
        /\ minY \in Coords(points, "y") /\ maxY \in Coords(points, "y")
        /\ minZ \in Coords(points, "z") /\ maxZ \in Coords(points, "z")

\* a two-sample cloud replaced a different cloud with different bounds
C2_Witness ==
    /\ After("setPointCloud") /\ Len(points) = 2 /\ points[1] # points[2]
    /\ pre.points # <<>> /\ pre.bounds # Bounds
    /\ minX < maxX /\ minY < maxY /\ minZ < maxZ

\* C3: in every state reached by camera operations and point-store replacements the
\* camera distance is strictly positive and within [0.1, 1000].
C3_DistanceInRange == camera.distance > 0 /\ 10 <= camera.distance /\ camera.distance <= 100000

\* C4: right after zoom(delta) the distance is clamp(distance_before * (1 - 0.1*delta),
\* 0.1, 1000), so within [0.1, 1000]; zoom(100) from 10 gives 0.1, zoom(-1000) from 10
\* gives 1000; yaw, pitch, target and fov are as before.
C4_ZoomClamps ==
    After("zoom") =>
        LET delta == last.args[1]
            before == pre.camera.distance
        IN  /\ camera.distance = Clamp(Mul(before, FP - Mul(delta, 10)), 10, 100000)
            /\ 10 <= camera.distance /\ camera.distance <= 100000
            /\ (before = 1000 /\ delta = 10000) => camera.distance = 10
            /\ (before = 1000 /\ delta = -100000) => camera.distance = 100000
            /\ camera = [pre.camera EXCEPT !.distance = camera.distance]

\* zoom(100) from distance 10 ended at 0.1
C4_Witness ==
    /\ After("zoom") /\ last.args[1] = 10000
    /\ pre.camera.distance = 1000 /\ camera.distance = 10

\* C5: in every state reached by camera operations and point-store replacements pitch is
\* within [-89, 89]; orbit(0, 1000) leaves pitch at 89 and orbit(0, -1000) at -89.
C5_PitchInRange ==
    /\ -8900 <= camera.pitch /\ camera.pitch <= 8900
    /\ (After("orbit") /\ last.args = <<0, 100000>>) => camera.pitch = 8900
    /\ (After("orbit") /\ last.args = <<0, -100000>>) => camera.pitch = -8900

\* orbit(0, 1000) from the lowest pitch ended at 89
C5_Witness ==
    /\ After("orbit") /\ last.args = <<0, 100000>>
    /\ pre.camera.pitch = -8900 /\ camera.pitch = 8900

\* C6: orbit(dYaw, dPitch) sets yaw to yaw_before + dYaw, unclamped and unwrapped, sets
\* pitch to clamp(pitch_before + dPitch, -89, 89) and changes nothing else; orbit(0, 0)
\* leaves the whole camera as it was.
C6_OrbitEffect ==
    After("orbit") =>
        /\ camera = [pre.camera EXCEPT
                        !.yaw = pre.camera.yaw + last.args[1],
                        !.pitch = Clamp(pre.camera.pitch + last.args[2], -8900, 8900)]
        /\ last.args = <<0, 0>> => camera = pre.camera

\* orbit turned the camera to a full turn, yaw 360, without wrapping it
C6_Witness ==
    /\ After("orbit") /\ last.args[1] = 18000
    /\ pre.camera.yaw = 18000 /\ camera.yaw = 36000

\* C7: each view preset sets (yaw, pitch) to its fixed pair from any prior state, leaves
\* distance, target and fov as they were, and applying it again changes nothing.
C7_PresetsExact ==
    /\ After("setTopView") =>
          /\ camera = [pre.camera EXCEPT !.yaw = 0, !.pitch = 8900]
          /\ Camera_setTopView(camera) = camera
    /\ After("setFrontView") =>
          /\ camera = [pre.camera EXCEPT !.yaw = 0, !.pitch = 0]
          /\ Camera_setFrontView(camera) = camera
    /\ After("setSideView") =>
          /\ camera = [pre.camera EXCEPT !.yaw = 9000, !.pitch = 0]
          /\ Camera_setSideView(camera) = camera
    /\ After("setIsometricView") =>
          /\ camera = [pre.camera EXCEPT !.yaw = 4500, !.pitch = 3526]
          /\ Camera_setIsometricView(camera) = camera

\* the top view was set from a camera with another yaw, pitch, distance and target
C7_Witness ==
    /\ After("setTopView")
    /\ pre.camera.yaw # 0 /\ pre.camera.pitch # 8900
    /\ pre.camera.distance # 1000 /\ pre.camera.targetY # 0
    /\ camera.yaw = 0 /\ camera.pitch = 8900

\* C8: after setPointCloud(s), for any s, the target is the centre of the recomputed
\* bounding box, the distance is twice its largest extent, whatever they were before,
\* and yaw, pitch and fov are as before.
C8_AutoCenter ==
    After("setPointCloud") =>
        /\ Bounds = BoxOf(last.args[1])
        /\ 2 * camera.targetX = minX + maxX
        /\ 2 * camera.targetY = minY + maxY
        /\ 2 * camera.targetZ = minZ + maxZ
        /\ camera.distance = 2 * Highest({maxX - minX, maxY - minY, maxZ - minZ})
        /\ camera.yaw = pre.camera.yaw
        /\ camera.pitch = pre.camera.pitch
        /\ camera.fov = pre.camera.fov

\* a cloud replaced another while the camera was zoomed in and in top view
C8_Witness ==
    /\ After("setPointCloud") /\ points # <<>>
    /\ pre.camera.distance = 10 /\ camera.distance > 10
    /\ pre.camera.targetX # camera.targetX
    /\ pre.camera.pitch = 8900 /\ camera.pitch = 8900

InCube(pts) ==
    \A i \in DOMAIN pts :
        /\ -500 <= pts[i].x /\ pts[i].x <= 500
        /\ -500 <= pts[i].y /\ pts[i].y <= 500
        /\ -500 <= pts[i].z /\ pts[i].z <= 500

BoxInCube ==
    /\ -500 <= minX /\ maxX <= 500
    /\ -500 <= minY /\ maxY <= 500
    /\ -500 <= minZ /\ maxZ <= 500

\* C9 as stated: for every non-empty cloud inside the cube [-5,5]^3, after setPointCloud
\* the box lies within the cube, the target is (0,0,0) and the distance is 20.
C9_Original ==
    (After("setPointCloud") /\ points # <<>> /\ InCube(points)) =>
        /\ BoxInCube
        /\ camera.targetX = 0 /\ camera.targetY = 0 /\ camera.targetZ = 0
        /\ camera.distance = 2000

\* C9: for every non-empty cloud inside the cube [-5,5]^3, after setPointCloud the box
\* lies within the cube, the target lies within the cube and the distance is at most 20;
\* when the samples reach both faces of the cube on every axis the target is (0,0,0) and
\* the distance is 20.
C9_CubeCloud ==
    (After("setPointCloud") /\ points # <<>> /\ InCube(points)) =>
        /\ BoxInCube
        /\ -500 <= camera.targetX /\ camera.targetX <= 500
        /\ -500 <= camera.targetY /\ camera.targetY <= 500
        /\ -500 <= camera.targetZ /\ camera.targetZ <= 500
        /\ camera.distance <= 2000
        /\ ({-500, 500} \subseteq Coords(points, "x")
              /\ {-500, 500} \subseteq Coords(points, "y")
              /\ {-500, 500} \subseteq Coords(points, "z")) =>
                 /\ camera.targetX = 0 /\ camera.targetY = 0 /\ camera.targetZ = 0
                 /\ camera.distance = 2000

\* a cloud spanning the whole cube was set while the camera was elsewhere
C9_Witness ==
    /\ After("setPointCloud") /\ InCube(points)
    /\ {-500, 500} \subseteq Coords(points, "x")
    /\ {-500, 500} \subseteq Coords(points, "y")
    /\ {-500, 500} \subseteq Coords(points, "z")
    /\ pre.camera.targetX # 0 /\ pre.camera.distance # 2000
    /\ camera.targetX = 0 /\ camera.distance = 2000

PointVerticesOf(f) == {k \in DOMAIN f : f[k].kind = "point"}

\* C10: clearPointCloud sets the point count to 0 and empties the sequence and changes
\* neither the bounds, the camera nor a setting; until the next setPointCloud every
\* render() emits no point vertex and emits the grid lines of the bounds held before
\* the clear.
C10_ClearEffect ==
    /\ After("clearPointCloud") =>
          /\ pointCount = 0 /\ points = <<>>
          /\ Bounds = pre.bounds /\ camera = pre.camera /\ Settings = pre.settings
    /\ sinceClear.active =>
          /\ pointCount = 0 /\ points = <<>>
          /\ Bounds = sinceClear.bounds
    /\ (sinceClear.active /\ After("render")) =>
          /\ PointVerticesOf(frame) = {}
          /\ frame = renderGrid(GLInit, sinceClear.bounds, showGrid, gridSpacing, 0).lines

\* a render after clearing a non-empty cloud drew its grid and no point
C10_Witness ==
    /\ sinceClear.active /\ After("render")
    /\ sinceClear.bounds.minX < sinceClear.bounds.maxX
    /\ frame # <<>> /\ PointVerticesOf(frame) = {}

DefaultCamera ==
    [distance |-> 1000, yaw |-> 4500, pitch |-> 3000,
     targetX |-> 0, targetY |-> 0, targetZ |-> 0, fov |-> 4500]

\* C15: reset() sets distance 10, yaw 45, pitch 30, target (0,0,0) and fov 45 from any
\* prior state; a freshly constructed camera is in exactly that state; a reset applied
\* to a camera that was just reset changes nothing.
C15_ResetDefaults ==
    /\ After("construct") => camera = DefaultCamera
    /\ After("reset") =>
          /\ camera = DefaultCamera
          /\ pre.camera = DefaultCamera => camera = pre.camera

\* reset brought back a camera whose distance, yaw, pitch and target had all changed
C15_Witness ==
    /\ After("reset") /\ camera = DefaultCamera
    /\ pre.camera.distance # 1000 /\ pre.camera.yaw # 4500
    /\ pre.camera.pitch # 3000 /\ pre.camera.targetX # 0

\* C16: in every reachable state, also after setPointCloud with an empty, single-sample
\* or very large cloud, zoom(delta) with delta > 0 never leaves the distance larger than
\* before and zoom(delta) with delta < 0 never leaves it smaller.
C16_ZoomMonotone ==
    After("zoom") =>
        /\ last.args[1] > 0 => camera.distance <= pre.camera.distance
        /\ last.args[1] < 0 => camera.distance >= pre.camera.distance

\* C17: pan(dx, dy) adds dy*scale to targetY, cos(yaw)*(dx-dy)*scale to targetX and
\* -sin(yaw)*(dx-dy)*scale to targetZ, with scale = distance*0.001, and leaves yaw,
\* pitch, distance and fov as they were; pan(0,0) changes nothing; pan(d,d) changes
\* targetY only.
C17_PanEffect ==
    After("pan") =>
        LET dx == last.args[1]
            dy == last.args[2]
            c  == pre.camera
            Times(x) == RoundDiv(x * c.distance, FP * 1000)
        IN  /\ camera = [c EXCEPT
                           !.targetX = c.targetX + Times(Mul(Cos(c.yaw), dx - dy)),
                           !.targetY = c.targetY + Times(dy),
                           !.targetZ = c.targetZ + Times(-Mul(Sin(c.yaw), dx - dy))]
            /\ (dx = 0 /\ dy = 0) => camera = c
            /\ dx = dy => camera = [c EXCEPT !.targetY = camera.targetY]

\* a pan with different horizontal and vertical deltas moved the target on all three
\* axes, from a heading that is not axis-aligned
C17_Witness ==
    /\ After("pan") /\ last.args[1] # last.args[2] /\ last.args[2] # 0
    /\ Cos(pre.camera.yaw) # 0 /\ Sin(pre.camera.yaw) # 0
    /\ camera.targetX # pre.camera.targetX
    /\ camera.targetY # pre.camera.targetY
    /\ camera.targetZ # pre.camera.targetZ

\* C13: in height mode with maxY > minY every sample is coloured (t, 1 - 2|t - 0.5|,
\* 1 - t) with t = (y - minY) / (maxY - minY), each component within [0, 1]; with
\* bounds 0..10 the samples at Y = 0, 5, 10 get (0,0,1), (0.5,1,0.5) and (1,0,0).
C13_HeightGradient ==
    (After("render") /\ colorMode = COLOR_HEIGHT /\ maxY > minY) =>
        \A k \in PointVerticesOf(frame) :
            LET y == frame[k].a[2]
                t == RoundDiv((y - minY) * FP, maxY - minY)
                rgb == frame[k].color
            IN  /\ rgb = <<t, FP - 2 * Abs(t - 50), FP - t>>
                /\ \A j \in 1..3 : 0 <= rgb[j] /\ rgb[j] <= FP
                /\ (minY = 0 /\ maxY = 1000 /\ y = 0)    => rgb = <<0, 0, 100>>
                /\ (minY = 0 /\ maxY = 1000 /\ y = 500)  => rgb = <<50, 100, 50>>
                /\ (minY = 0 /\ maxY = 1000 /\ y = 1000) => rgb = <<100, 0, 0>>

\* the samples at heights 0, 5 and 10 were drawn in height mode
C13_Witness ==
    /\ After("render") /\ colorMode = COLOR_HEIGHT /\ minY = 0 /\ maxY = 1000
    /\ \E i, j, k \in PointVerticesOf(frame) :
          /\ frame[i].a[2] = 0    /\ frame[i].color = <<0, 0, 100>>
          /\ frame[j].a[2] = 500  /\ frame[j].color = <<50, 100, 50>>
          /\ frame[k].a[2] = 1000 /\ frame[k].color = <<100, 0, 0>>

\* C14 as stated: no operation evaluates the height gradient's division with a zero Y extent:
\* a render in height mode with maxY = minY returns before the point stage, so it
\* emits no point vertex and no colour that is not a number.
C14_ZeroExtentGuarded ==
    (After("render") /\ colorMode = COLOR_HEIGHT /\ maxY = minY) =>
        /\ PointVerticesOf(frame) = {}
        /\ \A k \in PointVerticesOf(frame) :
              \A j \in 1..3 : frame[k].color[j] \notin {NaN, PosInf, NegInf}

\* C14: a render in height mode with maxY = minY is not guarded: with an empty store
\* it emits no point vertex, and with a non-empty store it runs the point stage and
\* gives every sample the colour (NaN, NaN, NaN) of the quotient 0/0.
C14_ZeroExtentUnguarded ==
    (After("render") /\ colorMode = COLOR_HEIGHT /\ maxY = minY) =>
        /\ pointCount = 0 => PointVerticesOf(frame) = {}
        /\ pointCount > 0 =>
              /\ Cardinality(PointVerticesOf(frame)) = pointCount
              /\ \A k \in PointVerticesOf(frame) : frame[k].color = <<NaN, NaN, NaN>>

\* two samples at the same height were drawn in height mode
C14_Witness ==
    /\ After("render") /\ colorMode = COLOR_HEIGHT /\ maxY = minY /\ pointCount = 2
    /\ Cardinality(PointVerticesOf(frame)) = 2
    /\ \A k \in PointVerticesOf(frame) : frame[k].color = <<NaN, NaN, NaN>>

\* C18: in every state reached from construction by setGridSpacing calls gridSpacing
\* is strictly positive, so the line count never divides by zero or by a negative
\* spacing.
C18_SpacingPositive == gridSpacing > 0

LinesOf(f) == {k \in DOMAIN f : f[k].kind = "line"}

Degenerate == maxX = minX \/ maxY = minY \/ maxZ = minZ

\* C19: renderGrid emits no line and changes no GL state when showGrid is false or a
\* box dimension is zero, which is always so after setPointCloud with an empty or a
\* single-sample sequence; renderAxisLabels emits no label unless showAxisLabels and
\* showGrid are both true and no box dimension is zero.
C19_GuardsSkipDrawing ==
    /\ (After("setPointCloud") /\ Len(last.args[1]) <= 1) => Degenerate
    /\ (After("render") /\ (~showGrid \/ Degenerate)) =>
          /\ LinesOf(frame) = {}
          /\ gl.blend = seen.raster.gl.blend
          /\ gl.lineWidth = seen.raster.gl.lineWidth
          /\ pointCount = 0 => gl.depthTest = seen.raster.gl.depthTest
    /\ (After("renderAxisLabels") /\ labels # <<>>) =>
          showAxisLabels /\ showGrid /\ ~Degenerate

\* a render with the grid switched off, on a box with three non-zero dimensions and
\* an empty store, drew nothing and left depth testing off
C19_Witness ==
    /\ After("render") /\ ~showGrid /\ ~Degenerate /\ pointCount = 0
    /\ frame = <<>>
    /\ ~seen.raster.gl.depthTest /\ ~gl.depthTest

\* the lines of one family of the grid, in the order drawn
PartOf(f, part) ==
    LET InPart(l) == l.kind = "line" /\ l.part = part
    IN  SelectSeq(f, InPart)

\* the six families: the axis each steps along and the side of the box it starts from
GridFamilies ==
    { <<"bottom_z", 3>>, <<"bottom_x", 1>>, <<"back_y", 2>>,
      <<"back_x", 1>>, <<"left_y", 2>>, <<"left_z", 3>> }

\* C20: with a box of three non-zero dimensions and gridSpacing > 0, in each of the six
\* families the lines are at min + i*gridSpacing, every line lies in [min, max], the
\* first is at min, the last exactly at max, and consecutive lines other than the final
\* one are exactly gridSpacing apart.
C20_GridPositions ==
    (After("render") /\ showGrid /\ ~Degenerate /\ gridSpacing > 0) =>
        \A fam \in GridFamilies :
            LET ls == PartOf(frame, fam[1])
                ax == fam[2]
                lo == <<minX, minY, minZ>>[ax]
                hi == <<maxX, maxY, maxZ>>[ax]
                n  == Len(ls)
            IN  /\ n >= 2
                /\ \A k \in 1..n :
                      /\ ls[k].a[ax] = ls[k].b[ax]
                      /\ lo <= ls[k].a[ax] /\ ls[k].a[ax] <= hi
                /\ ls[1].a[ax] = lo
                /\ ls[n].a[ax] = hi
                /\ \A k \in 1..(n - 1) : ls[k].a[ax] = lo + (k - 1) * gridSpacing
                /\ \A k \in 1..(n - 2) : ls[k + 1].a[ax] - ls[k].a[ax] = gridSpacing

\* a grid was drawn on a box whose sides are not whole multiples of the spacing
C20_Witness ==
    /\ After("render") /\ showGrid /\ ~Degenerate /\ gridSpacing = 300
    /\ (maxX - minX) % gridSpacing # 0
    /\ Len(PartOf(frame, "bottom_x")) = ((maxX - minX) \div gridSpacing) + 2
    /\ PartOf(frame, "bottom_x")[Len(PartOf(frame, "bottom_x"))].a[1] = maxX

\* C11: the transform is a function of the camera and the window size alone and leaves
\* the camera as it was: the arrays getProjectionMatrices fills are the matrices
\* applyTransform loads for the same camera, width and height, whatever the context held
\* before (near 0.1, far 10000, looking at the target with up (0,1,0)), with viewport
\* (0, 0, width, height); the matrices of the context are as before the call.
C11_TransformPure ==
    /\ (After("renderAxisLabels") \/ After("render")) => camera = pre.camera
    /\ After("render") =>
          LET m == getProjectionMatrices(GLInit, camera, last.args[1], last.args[2])
          IN  gl.projection = m.projection /\ gl.modelview = m.modelview
    /\ (After("renderAxisLabels") /\ seen.labels.fetched.ok) =>
          LET f == seen.labels.fetched
              a == applyTransform(GLInit, pre.camera, last.args[1], last.args[2])
          IN  /\ f.projection = a.projection /\ f.modelview = a.modelview
              /\ f.viewport = <<0, 0, last.args[1], last.args[2]>>
              /\ Len(f.projection) = 1 /\ Len(f.modelview) = 1
              /\ f.projection[1].zNear = 10 /\ f.projection[1].zFar = 1000000
              /\ f.modelview[1].center = <<camera.targetX, camera.targetY, camera.targetZ>>
              /\ f.modelview[1].up = <<0, FP, 0>>
              /\ gl.projection = seen.labels.gl.projection
              /\ gl.modelview = seen.labels.gl.modelview
    /\ (After("renderAxisLabels") /\ seen.labels.fetched.ok /\ seen.raster.set
           /\ seen.raster.view.camera = seen.labels.view.camera
           /\ seen.raster.view.width = seen.labels.view.width
           /\ seen.raster.view.height = seen.labels.view.height) =>
          /\ seen.labels.fetched.projection = gl.projection
          /\ seen.labels.fetched.modelview = gl.modelview

\* the label stage fetched, from a turned camera and on a context render had loaded,
\* the matrices render had loaded
C11_Witness ==
    /\ After("renderAxisLabels") /\ seen.labels.fetched.ok /\ seen.raster.set
    /\ seen.raster.view = seen.labels.view
    /\ camera.pitch # 3000 /\ camera.yaw # 4500 /\ camera.distance # 1000
    /\ gl.projection # <<>>
    /\ seen.labels.fetched.projection = gl.projection
    /\ seen.labels.fetched.modelview = gl.modelview

\* C12: in every iteration of the main loop all input handling and every mutation
\* comes before both draw stages and nothing is changed between renderAxisLabels and
\* render: both stages work from the same camera, bounds, grid spacing and window
\* width and height.
C12_StagesAgree ==
    /\ main.pc = "labels" => ~After("renderAxisLabels") /\ ~After("render")
    /\ main.pc = "render" =>
          /\ After("renderAxisLabels")
          /\ seen.labels.set
          /\ seen.labels.view = View(main.display[1], main.display[2])
    /\ (main.pc = "mouse" /\ After("render")) =>
          /\ seen.labels.set /\ seen.raster.set
          /\ seen.labels.view = seen.raster.view
    /\ main.pc \in {"scroll", "panel"} => ~seen.labels.set /\ ~seen.raster.set

\* an iteration in which the wheel zoomed in and the panel changed the grid spacing
\* ended with both stages having drawn the same view in an 800 by 600 window
C12_Witness ==
    /\ main.pc = "mouse" /\ After("render") /\ main.frames = 1
    /\ seen.labels.set /\ seen.raster.set
    /\ seen.labels.view = seen.raster.view
    /\ seen.raster.view.camera.distance = 20
    /\ seen.raster.view.gridSpacing = 300
    /\ seen.raster.view.width = 800
    /\ labels = <<>> /\ frame # <<>>

ThinnedPositions(lo, hi, spacing) ==
    LET n == TruncDiv(hi - lo, spacing) + 1
        step == IF n <= 15 THEN 1 ELSE IF n <= 30 THEN 2 ELSE 4
    IN  [k \in 1..((n \div step) + 1) |->
            LET v == lo + ((k - 1) * step) * spacing
            IN  IF v > hi THEN hi ELSE v]

\* the labels of the three loops with the thinning of C22, before projection
ThinnedLabels ==
    LET corner == <<minX, minY, minZ>>
    IN  AxisLabels(ThinnedPositions(minX, maxX, gridSpacing), 1, corner,
                   <<255, 100, 100, 255>>)
        \o AxisLabels(ThinnedPositions(minY, maxY, gridSpacing), 2, corner,
                      <<100, 255, 100, 255>>)
        \o AxisLabels(ThinnedPositions(minZ, maxZ, gridSpacing), 3, corner,
                      <<100, 100, 255, 255>>)

\* C22: each label loop thins by its own axis's line count n = floor(size/gridSpacing)
\* + 1: a label on every line when n <= 15, on every 2nd line when 15 < n <= 30, on
\* every 4th line when n > 30; the labels drawn are those of these positions that the
\* projection lets through.
C22_LabelThinning ==
    (After("renderAxisLabels") /\ showAxisLabels /\ showGrid /\ ~Degenerate
        /\ gridSpacing > 0) =>
        \E outcome \in ProjectOutcomes : labels = Keep(ThinnedLabels, outcome)

\* the labels the three loops of renderAxisLabels hand to the projection (spacing > 0)
LoopLabels ==
    LET corner == <<minX, minY, minZ>>
    IN  AxisLabels(LabelPositions(minX, maxX, gridSpacing, 0), 1, corner,
                   <<255, 100, 100, 255>>)
        \o AxisLabels(LabelPositions(minY, maxY, gridSpacing, 0), 2, corner,
                      <<100, 255, 100, 255>>)
        \o AxisLabels(LabelPositions(minZ, maxZ, gridSpacing, 0), 3, corner,
                      <<100, 100, 255, 255>>)

\* the projection of a world position through the matrices the label stage fetched
\* succeeds with depth in [0,1]: the position lies between the near and the far plane,
\* measured from the eye along the line of sight
InDepthRange(world) ==
    LET look == seen.labels.fetched.modelview[1]
        frustum == seen.labels.fetched.projection[1]
        dist == seen.labels.view.camera.distance
        along == (world[1] - look.eye[1]) * (look.center[1] - look.eye[1])
               + (world[2] - look.eye[2]) * (look.center[2] - look.eye[2])
               + (world[3] - look.eye[3]) * (look.center[3] - look.eye[3])
    IN  /\ dist > 0
        /\ along >= frustum.zNear * dist
        /\ along \div dist <= frustum.zFar

\* the grid-line family whose lines start on the edge the labels of an axis sit on
EdgeFamily(axis) ==
    CASE axis = 1 -> "bottom_x"
      [] axis = 2 -> "back_y"
      [] axis = 3 -> "bottom_z"

\* C23: every axis label sits at a 3D position where renderGrid draws a grid line of
\* that axis for the same box and spacing, on the box edge through the minimum corner;
\* its text is that coordinate; and the labels drawn are exactly those whose projection
\* through the camera's current matrices succeeds with depth in [0,1].
C23_LabelsProjected ==
    (After("renderAxisLabels") /\ showAxisLabels /\ showGrid /\ ~Degenerate
        /\ gridSpacing > 0) =>
        LET lines == renderGrid(GLInit, Bounds, showGrid, gridSpacing, 0).lines
            Through(l) == InDepthRange(l.world)
        IN  /\ \A j \in DOMAIN labels :
                  /\ \E k \in DOMAIN lines :
                        /\ lines[k].part = EdgeFamily(labels[j].axis)
                        /\ lines[k].a = labels[j].world
                  /\ labels[j].text * 10 = labels[j].world[labels[j].axis]
            /\ seen.labels.fetched.ok
            /\ labels = SelectSeq(LoopLabels, Through)

\* C24: in every family of grid lines no line is drawn twice: on a box with three
\* non-zero dimensions and gridSpacing > 0, two lines that one loop of renderGrid emits
\* never have the same ends, also when a box dimension is a whole multiple of
\* gridSpacing.
C24_NoLineTwice ==
    (After("render") /\ showGrid /\ ~Degenerate /\ gridSpacing > 0) =>
        \A family \in GridFamilies :
            LET fam == PartOf(frame, family[1])
            IN  \A i, j \in DOMAIN fam :
                    i # j => <<fam[i].a, fam[i].b>> # <<fam[j].a, fam[j].b>>

\* C25: the panel's Reset Camera never changes the point store: after any sequence of
\* Generate New Cloud, Clear Point Cloud and Reset Camera, the point count and the
\* stored sequence right after a Reset Camera are those right before it; a cleared
\* cloud stays cleared.
C25_ResetKeepsStore ==
    After("resetCamera") => (points = pre.points /\ pointCount = pre.pointCount)

\* C26: in the mouse block an orbit (left button) or a pan (right button) is applied in
\* a frame only if that button was physically down in the preceding frame as well, and
\* the delta passed is the cursor's move between these two frames, whatever the
\* interleaving of presses, releases, moves and frames in which the panel captures the
\* mouse; the first frame of a new press never moves the camera.
C26_DragDeltas ==
    After("mouse") =>
        LET before == main.physical[1]
            now == main.physical[2]
            dx == now.x - before.x
            dy == now.y - before.y
            orbited == Camera_orbit(pre.camera, Mul(dx, 50), Mul(-dy, 50))
            afterOrbit == {pre.camera} \cup
                          (IF now.left /\ before.left THEN {orbited} ELSE {})
            afterPan == afterOrbit \cup
                        (IF now.right /\ before.right
                         THEN {Camera_pan(c, dx, dy) : c \in afterOrbit} ELSE {})
        IN  camera \in afterPan

====
